---- MODULE Spec2Model ----
(***************************************************************************)
(* The authenticated-session core of the application: the axios gateway    *)
(* with its two interceptors, the auth service and the product service,    *)
(* in both variants the repository carries (src/natvived.js, the           *)
(* JavaScript one, and src/native.en.ts, the TypeScript one).              *)
(*                                                                         *)
(* Every async function is cut at its awaits: one action is the code that  *)
(* runs between two suspension points, together with the storage or        *)
(* network operation that ends it.                                         *)
(***************************************************************************)
EXTENDS Integers, Sequences, FiniteSets, TLC

\* ------------------------------------------------------------------ bounds
MaxTokens == 2   \* distinct bearer tokens the server hands out
MaxUsers == 1    \* distinct user ids (each with and without a phone)
MaxCalls == 2    \* call slots (service calls that can be in flight at once)
MaxProducts == 2 \* distinct product ids of the catalog

\* ------------------------------------------------------------------ values
\* JavaScript values are records; a string-valued item is an integer id.
Undefined == [undefined |-> TRUE]
Null == [null |-> TRUE]
NoToken == 0                      \* getItem('token') === null / no token field
Tokens == 1..MaxTokens
Slots == 1..MaxCalls

\* types/index.ts User: phone is optional.
UserOf(i, withPhone) ==
  IF withPhone THEN [id |-> i, email |-> i, fullName |-> i, phone |-> i]
               ELSE [id |-> i, email |-> i, fullName |-> i]
Users == {UserOf(i, p) : i \in 1..MaxUsers, p \in BOOLEAN}

\* A JSON text is a sequence of <<key, value>> pairs; <<>> is "no item"
\* (getItem returns null). A text with an element that is no pair is malformed.
NoItem == <<>>
CorruptText == << <<"{">> >>
KeyOrder == <<"id", "email", "fullName", "phone">>

\* Mutant of JSONstringify: the optional property is not serialized.
JSONstringify_requiredOnly(v) ==
  IF v = Undefined THEN Undefined
  ELSE LET ks == SelectSeq(KeyOrder, LAMBDA k : k \in DOMAIN v /\ k # "phone")
       IN  [text |-> [i \in 1..Len(ks) |-> <<ks[i], v[ks[i]]>>]]

\* JSON.stringify: undefined has no text (the result is undefined); an object
\* becomes the pairs of the properties it has, in order.
JSONstringify(v) ==
  IF v = Undefined THEN Undefined
  ELSE LET ks == SelectSeq(KeyOrder, LAMBDA k : k \in DOMAIN v)
       IN  [text |-> [i \in 1..Len(ks) |-> <<ks[i], v[ks[i]]>>]]

JSONwellFormed(text) == \A i \in DOMAIN text : Len(text[i]) = 2

\* JSON.parse of a well-formed text (it throws on any other).
JSONparse(text) ==
  [k \in {text[i][1] : i \in DOMAIN text} |->
      text[CHOOSE i \in DOMAIN text : text[i][1] = k][2]]

\* ------------------------------------------------------------------ errors
NoResponse == [none |-> TRUE]
NoError == [none |-> TRUE]
NoMessage == "<undefined>"
ErrorStatuses == {401, 404}
\* error.response.data: null/undefined, a body without message, a body with one
ErrorBodies == {Null, [message |-> NoMessage], [message |-> "Identifiants invalides"]}

\* An error object as the catch blocks see it: the axios fields they read.
AxiosError(response, request) == [kind |-> "axios", response |-> response, request |-> request]
\* What AsyncStorage / localStorage reject with: a plain Error.
StorageFailure == [kind |-> "storage", response |-> NoResponse, request |-> FALSE]
\* A TypeError raised by the code itself (a property read on null/undefined).
TypeErrorValue == [kind |-> "TypeError", response |-> NoResponse, request |-> FALSE]

FallbackMessage == "Une erreur est survenue"
NoAnswerMessage == "Le serveur ne repond pas"
ConfigMessage == "Erreur lors de la configuration de la requete"

\* handleError: the normalized {status, message}, or the TypeError that
\* reading .message of a null/undefined response body throws.
handleError(error) ==
  IF error.response # NoResponse
  THEN IF error.response.data \in {Null, Undefined}
       THEN TypeErrorValue
       ELSE [status |-> error.response.status,
             message |-> IF error.response.data.message # NoMessage
                         THEN error.response.data.message
                         ELSE FallbackMessage]
  ELSE IF error.request
       THEN [status |-> 503, message |-> NoAnswerMessage]
       ELSE [status |-> 500, message |-> ConfigMessage]

IsNormalized(v) == DOMAIN v = {"status", "message"}

\* ------------------------------------------------------------------ state
VARIABLES
  variant,        \* "js" (src/natvived.js) or "ts" (src/native.en.ts)
  inflightCap,    \* how many service calls the caller keeps in flight
  store,          \* AsyncStorage: the keys the program uses
  localStorage,   \* window.localStorage: the key the JS interceptors use
  windowLocation, \* window.location.href
  calls,          \* per slot: the service call running there
  expired,        \* a 401 failure was delivered and no login/refresh stored a token since
  ctx,            \* AuthProvider: its state and the handlers it has running
  screen          \* ProductsScreen: the list it shows and the handlers it has running

vars == <<variant, inflightCap, store, localStorage, windowLocation, calls, expired,
          ctx, screen>>

IdleCall ==
  [op |-> "none", pc |-> "idle",
   auth |-> NoToken,          \* token in the Authorization header as sent
   sent |-> 0,                \* HTTP requests dispatched by this call
   refresh |-> NoToken,       \* the refreshToken of the request body (refreshToken())
   stale |-> FALSE,           \* the request was issued while expired
   response |-> NoResponse,   \* the HTTP response received, if any
   error |-> NoError,         \* the error travelling to the catch block
   outcome |-> "pending",     \* "resolved" / "rejected" once pc = "done"
   value |-> Undefined,       \* what the call resolved or rejected with
   writes |-> {},             \* AsyncStorage keys this call wrote or removed
   mods |-> {}]               \* AsyncStorage keys whose value this call changed

\* AuthProvider after useState: user null, loading true; no handler running.
NoHandler == [name |-> "none", outcome |-> "none"]
CtxInit == [user |-> Null, loading |-> TRUE, handler |-> [c \in Slots |-> NoHandler]]

\* ProductsScreen after useState: an empty list, no handler running. gone
\* keeps the ids whose deletion succeeded and that no load has returned since.
ProductIds == 1..MaxProducts
NoTask == [kind |-> "none", id |-> 0, snapshot |-> {}, pending |-> FALSE]
ScreenInit == [products |-> {}, gone |-> {}, task |-> [c \in Slots |-> NoTask]]

InFlight == {c \in Slots : calls[c].pc \notin {"idle", "done"}}

AuthOps(v) ==
  IF v = "ts"
  THEN {"login", "register", "logout", "getCurrentUser", "isAuthenticated"}
  ELSE {"login", "register", "logout", "getCurrentUser", "isAuthenticated",
        "refreshToken", "updateUserProfile", "resetPassword"}

TypeOK ==
  /\ variant \in {"js", "ts"}
  /\ inflightCap \in 1..MaxCalls
  /\ store.token \in Tokens \cup {NoToken}
  /\ store.refreshToken \in Tokens \cup {NoToken}
  /\ localStorage.token \in Tokens \cup {NoToken}
  /\ windowLocation \in {"/", "/login"}
  /\ expired \in BOOLEAN
  /\ ctx.loading \in BOOLEAN
  /\ ctx.user \in Users \cup {Null, Undefined}
  /\ screen.products \subseteq ProductIds /\ screen.gone \subseteq ProductIds
  /\ \A c \in Slots : calls[c].outcome \in {"pending", "resolved", "rejected"}

\* Process start: both session fields absent (spec section 3).
Init ==
  /\ variant \in {"js", "ts"}
  /\ inflightCap = 1
  /\ store = [token |-> NoToken, user |-> NoItem, refreshToken |-> NoToken]
  /\ localStorage = [token |-> NoToken]
  /\ windowLocation = "/"
  /\ calls = [c \in Slots |-> IdleCall]
  /\ expired = FALSE
  /\ ctx = CtxInit
  /\ screen = ScreenInit

\* ------------------------------------------------------------------ helpers
env == <<variant, inflightCap, ctx, screen>>

\* The call record after an AsyncStorage write/removal of key to val.
Wrote(call, key, val) ==
  [call EXCEPT !.writes = @ \cup {key},
               !.mods = IF store[key] # val THEN @ \cup {key} ELSE @]

Settle(call, outcome, value) ==
  [call EXCEPT !.pc = "done", !.outcome = outcome, !.value = value]

Raise(call, error) == [call EXCEPT !.pc = "catch", !.error = error]

\* `if (token)` / `!!token`
Truthy(token) == token # NoToken

\* Response bodies the server (or a mock of it) can answer with.
AuthBodies == [token : Tokens \cup {NoToken}, user : Users \cup {Undefined}]
RefreshBodies == [token : Tokens \cup {NoToken}]
Acknowledged == [ok |-> TRUE]
SuccessBodies(op) ==
  CASE op \in {"login", "register"} -> AuthBodies
    [] op = "refreshToken" -> RefreshBodies
    [] op = "updateUserProfile" -> Users
    [] OTHER -> {Acknowledged}

\* First suspension point of each service function.
Entry(op) ==
  CASE op = "logout" -> "logout_removeToken"
    [] op = "getCurrentUser" -> "getCurrentUser"
    [] op = "isAuthenticated" -> "isAuthenticated"
    [] op = "refreshToken" -> "refresh_getItem"
    [] OTHER -> "request"

\* ------------------------------------------------------------------ caller
\* A screen or the context invokes a service function.
Call(c, op) ==
  /\ calls[c].pc \in {"idle", "done"}
  /\ \A d \in Slots : d < c => d \in InFlight
  /\ Cardinality(InFlight) < inflightCap
  /\ op \in AuthOps(variant) \cup {"product"}
  /\ calls' = [calls EXCEPT ![c] = [IdleCall EXCEPT !.op = op, !.pc = Entry(op)]]
  /\ UNCHANGED <<env, store, localStorage, windowLocation, expired>>

\* ------------------------------------------------------------------ gateway
\* The token the request interceptor reads: AsyncStorage in the TypeScript
\* variant, window.localStorage in the JavaScript one.
InterceptorToken ==
  IF variant = "ts" THEN store.token ELSE localStorage.token

\* dispatchRequest: the request leaves, or axios cannot set it up and rejects
\* before anything is sent.
Dispatched(call, how) ==
  IF how = "sent"
  THEN [call EXCEPT !.pc = "wire", !.sent = @ + 1, !.stale = expired]
  ELSE Raise(call, AxiosError(NoResponse, FALSE))

\* axiosInstance.post/get/put/delete: the request interceptor reads the token
\* and sets the header. TypeScript: the read is awaited (AsyncStorage.getItem),
\* the request is dispatched once it resolved. JavaScript: the read is
\* synchronous and the dispatch follows without a suspension. A failing read
\* rejects the chain before anything is sent; the response interceptor's
\* error handler sees no status 401 there and passes the error on.
requestInterceptor(c) ==
  /\ calls[c].pc = "request"
  /\ \E how \in {"sent", "readFails", "notSent"} :
       calls' = [calls EXCEPT ![c] =
         IF how = "readFails" THEN Raise(@, StorageFailure)
         ELSE IF variant = "ts"
              THEN [@ EXCEPT !.pc = "dispatch", !.auth = InterceptorToken]
              ELSE Dispatched([@ EXCEPT !.auth = InterceptorToken], how)]
  /\ UNCHANGED <<env, store, localStorage, windowLocation, expired>>

\* TypeScript: the continuation of the awaited interceptor; the request is
\* dispatched with the header the interceptor set.
dispatch(c) ==
  /\ calls[c].pc = "dispatch"
  /\ \E how \in {"sent", "notSent"} :
       calls' = [calls EXCEPT ![c] = Dispatched(@, how)]
  /\ UNCHANGED <<env, store, localStorage, windowLocation, expired>>

\* Mutant of AfterFailure: every error status is taken for an expired session.
AfterFailure_anyStatus(response) ==
  IF response # NoResponse THEN "unauthorized" ELSE "catch"

\* Where a failure goes after the response interceptor's status test.
AfterFailure(response) ==
  IF response # NoResponse /\ response.status = 401 THEN "unauthorized" ELSE "catch"

\* The server answers (2xx with one of bodies, or an error status with one of
\* errorBodies), or no answer arrives (network failure, the 10 s timeout). A
\* 2xx passes the response interceptor unchanged.
Answered(c, bodies, errorBodies) ==
  /\ calls[c].pc = "wire"
  /\ \/ \E d \in bodies :
          calls' = [calls EXCEPT ![c] =
            [@ EXCEPT !.pc = "fulfilled", !.response = [status |-> 200, data |-> d]]]
     \/ \E s \in ErrorStatuses, d \in errorBodies :
          LET r == [status |-> s, data |-> d]
          IN calls' = [calls EXCEPT ![c] =
               [@ EXCEPT !.pc = AfterFailure(r), !.response = r,
                         !.error = AxiosError(r, TRUE)]]
     \/ calls' = [calls EXCEPT ![c] =
          [@ EXCEPT !.pc = AfterFailure(NoResponse),
                    !.error = AxiosError(NoResponse, TRUE)]]
  /\ UNCHANGED <<env, store, localStorage, windowLocation, expired>>

respond(c) == Answered(c, SuccessBodies(calls[c].op), ErrorBodies)

\* Mutant of unauthorized: the 401 branch clears the whole session, the cached
\* user included.
unauthorized_clearsSession(c) ==
  /\ calls[c].pc = "unauthorized"
  /\ IF variant = "ts"
     THEN /\ store' = [store EXCEPT !.token = NoToken, !.user = NoItem]
          /\ calls' = [calls EXCEPT ![c] =
               [Wrote(Wrote(@, "token", NoToken), "user", NoItem) EXCEPT !.pc = "catch"]]
          /\ UNCHANGED <<localStorage, windowLocation>>
     ELSE /\ localStorage' = [localStorage EXCEPT !.token = NoToken]
          /\ windowLocation' = "/login"
          /\ store' = [store EXCEPT !.user = NoItem]
          /\ calls' = [calls EXCEPT ![c] =
               [Wrote(@, "user", NoItem) EXCEPT !.pc = "catch"]]
  /\ UNCHANGED <<env, expired>>

\* The response interceptor's 401 branch. TypeScript: await
\* AsyncStorage.removeItem('token'), then reject with the error. JavaScript:
\* localStorage.removeItem('token'), window.location.href = '/login', then
\* reject. When the removal throws, the interceptor rejects with what it
\* threw; so it does when the assignment to window.location.href throws (a
\* platform whose window has no location), the token being removed by then.
unauthorized(c) ==
  /\ calls[c].pc = "unauthorized"
  /\ \E how \in {"removed", "removeFails", "redirectFails"} :
       CASE how = "removeFails" ->
              /\ calls' = [calls EXCEPT ![c] = Raise(@, StorageFailure)]
              /\ UNCHANGED <<store, localStorage, windowLocation>>
         [] how = "removed" /\ variant = "ts" ->
              /\ store' = [store EXCEPT !.token = NoToken]
              /\ calls' = [calls EXCEPT ![c] =
                   [Wrote(@, "token", NoToken) EXCEPT !.pc = "catch"]]
              /\ UNCHANGED <<localStorage, windowLocation>>
         [] how = "removed" /\ variant = "js" ->
              /\ localStorage' = [localStorage EXCEPT !.token = NoToken]
              /\ windowLocation' = "/login"
              /\ calls' = [calls EXCEPT ![c] = [@ EXCEPT !.pc = "catch"]]
              /\ UNCHANGED store
         [] how = "redirectFails" /\ variant = "js" ->
              /\ localStorage' = [localStorage EXCEPT !.token = NoToken]
              /\ calls' = [calls EXCEPT ![c] = Raise(@, TypeErrorValue)]
              /\ UNCHANGED <<store, windowLocation>>
         [] OTHER -> FALSE
  /\ UNCHANGED <<env, expired>>

\* ------------------------------------------------------------------ services
\* Mutant of serviceCatch: a request that got no answer is sent once more
\* before the failure is reported.
serviceCatch_retry(c) ==
  /\ calls[c].pc = "catch"
  /\ calls' = [calls EXCEPT ![c] =
       IF @.error = AxiosError(NoResponse, TRUE) /\ @.sent < 2
       THEN [@ EXCEPT !.pc = "request", !.error = NoError]
       ELSE Settle(@, "rejected", handleError(@.error))]
  /\ expired' = (expired \/ (calls[c].response # NoResponse /\ calls[c].response.status = 401))
  /\ UNCHANGED <<env, store, localStorage, windowLocation>>

\* catch (error) { throw handleError(error); } of every service function
\* that has one (logout logs first).
serviceCatch(c) ==
  /\ calls[c].pc = "catch"
  /\ calls' = [calls EXCEPT ![c] = Settle(@, "rejected", handleError(@.error))]
  /\ expired' = (expired \/ (calls[c].response # NoResponse /\ calls[c].response.status = 401))
  /\ UNCHANGED <<env, store, localStorage, windowLocation>>

\* AsyncStorage.setItem(key, text): rejects a value that is no string
\* (JSON.stringify(undefined) is undefined), and may fail like any storage
\* operation. TRUE when the write can go through.
Storable(value) == value # Undefined

\* Mutant of login_setToken: the `if (response.data.token)` test is missing.
login_setToken_unconditional(c) ==
  /\ calls[c].pc = "fulfilled" /\ calls[c].op = "login"
  /\ LET data == calls[c].response.data
     IN \E ok \in BOOLEAN :
          IF ok
          THEN /\ store' = [store EXCEPT !.token = data.token]
               /\ calls' = [calls EXCEPT ![c] =
                    [Wrote(@, "token", data.token) EXCEPT !.pc = "login_setUser"]]
          ELSE /\ calls' = [calls EXCEPT ![c] = Raise(@, StorageFailure)]
               /\ UNCHANGED store
  /\ UNCHANGED <<env, localStorage, windowLocation, expired>>

\* login, after the POST resolved: if (response.data.token) await
\* setItem('token', ...), else return response.data.
login_setToken(c) ==
  /\ calls[c].pc = "fulfilled" /\ calls[c].op = "login"
  /\ LET data == calls[c].response.data
     IN IF Truthy(data.token)
        THEN \E ok \in BOOLEAN :
               IF ok
               THEN /\ store' = [store EXCEPT !.token = data.token]
                    /\ calls' = [calls EXCEPT ![c] =
                         [Wrote(@, "token", data.token) EXCEPT !.pc = "login_setUser"]]
               ELSE /\ calls' = [calls EXCEPT ![c] = Raise(@, StorageFailure)]
                    /\ UNCHANGED store
        ELSE /\ calls' = [calls EXCEPT ![c] = Settle(@, "resolved", data)]
             /\ UNCHANGED store
  /\ UNCHANGED <<env, localStorage, windowLocation, expired>>

\* Mutant of login_setUser: the user is returned but never written.
login_setUser_unsaved(c) ==
  /\ calls[c].pc = "login_setUser"
  /\ calls' = [calls EXCEPT ![c] = Settle(@, "resolved", @.response.data)]
  /\ expired' = FALSE
  /\ UNCHANGED <<env, store, localStorage, windowLocation>>

\* login: await setItem('user', JSON.stringify(response.data.user)); return
\* response.data.
login_setUser(c) ==
  /\ calls[c].pc = "login_setUser"
  /\ LET data == calls[c].response.data
         json == JSONstringify(data.user)
     IN \E ok \in BOOLEAN :
          IF ok /\ Storable(json)
          THEN /\ store' = [store EXCEPT !.user = json.text]
               /\ calls' = [calls EXCEPT ![c] =
                    Settle(Wrote(@, "user", json.text), "resolved", data)]
               /\ expired' = FALSE
          ELSE /\ calls' = [calls EXCEPT ![c] = Raise(@, StorageFailure)]
               /\ UNCHANGED <<store, expired>>
  /\ UNCHANGED <<env, localStorage, windowLocation>>

\* Mutant of returnData: register persists the token of its response, as
\* login does.
returnData_persisting(c) ==
  /\ calls[c].pc = "fulfilled"
  /\ calls[c].op \in {"register", "resetPassword", "product"}
  /\ IF calls[c].op = "register" /\ Truthy(calls[c].response.data.token)
     THEN /\ store' = [store EXCEPT !.token = calls[c].response.data.token]
          /\ calls' = [calls EXCEPT ![c] =
               Settle(Wrote(@, "token", @.response.data.token), "resolved",
                      @.response.data)]
     ELSE /\ calls' = [calls EXCEPT ![c] = Settle(@, "resolved", @.response.data)]
          /\ UNCHANGED store
  /\ UNCHANGED <<env, localStorage, windowLocation, expired>>

\* register, resetPassword and the product service functions: return
\* response.data (deleteProduct: return true). The TypeScript file imports the
\* product service without carrying it; its calls are those of
\* services/productService.js.
returnData(c) ==
  /\ calls[c].pc = "fulfilled"
  /\ calls[c].op \in {"register", "resetPassword", "product"}
  /\ calls' = [calls EXCEPT ![c] = Settle(@, "resolved", @.response.data)]
  /\ UNCHANGED <<env, store, localStorage, windowLocation, expired>>

\* Mutant of logout_removeToken: the token removal is left out.
logout_removeToken_skipped(c) ==
  /\ calls[c].pc = "logout_removeToken"
  /\ calls' = [calls EXCEPT ![c] = [@ EXCEPT !.pc = "logout_removeUser"]]
  /\ UNCHANGED <<env, store, localStorage, windowLocation, expired>>

\* Mutant of logout_removeToken: a failing removal of the token is swallowed
\* and logout goes on to remove the user.
logout_removeToken_lenient(c) ==
  /\ calls[c].pc = "logout_removeToken"
  /\ \E ok \in BOOLEAN :
       /\ store' = IF ok THEN [store EXCEPT !.token = NoToken] ELSE store
       /\ calls' = [calls EXCEPT ![c] =
            [(IF ok THEN Wrote(@, "token", NoToken) ELSE @) EXCEPT !.pc = "logout_removeUser"]]
  /\ UNCHANGED <<env, localStorage, windowLocation, expired>>

\* logout: await AsyncStorage.removeItem('token')
logout_removeToken(c) ==
  /\ calls[c].pc = "logout_removeToken"
  /\ \E ok \in BOOLEAN :
       IF ok
       THEN /\ store' = [store EXCEPT !.token = NoToken]
            /\ calls' = [calls EXCEPT ![c] =
                 [Wrote(@, "token", NoToken) EXCEPT !.pc = "logout_removeUser"]]
       ELSE /\ calls' = [calls EXCEPT ![c] = Raise(@, StorageFailure)]
            /\ UNCHANGED store
  /\ UNCHANGED <<env, localStorage, windowLocation, expired>>

\* Mutant of logout_removeUser: the POST is issued first and the user removed
\* only once it resolved, so a failing POST leaves the user stored.
logout_removeUser_afterPost(c) ==
  /\ calls[c].pc = "logout_removeUser"
  /\ calls' = [calls EXCEPT ![c] = [@ EXCEPT !.pc = "request"]]
  /\ UNCHANGED <<env, store, localStorage, windowLocation, expired>>

\* logout: await AsyncStorage.removeItem('user'), then the POST is issued.
logout_removeUser(c) ==
  /\ calls[c].pc = "logout_removeUser"
  /\ \E ok \in BOOLEAN :
       IF ok
       THEN /\ store' = [store EXCEPT !.user = NoItem]
            /\ calls' = [calls EXCEPT ![c] =
                 [Wrote(@, "user", NoItem) EXCEPT !.pc = "request"]]
       ELSE /\ calls' = [calls EXCEPT ![c] = Raise(@, StorageFailure)]
            /\ UNCHANGED store
  /\ UNCHANGED <<env, localStorage, windowLocation, expired>>

\* logout, after the POST resolved: the function ends (resolves undefined).
logout_done(c) ==
  /\ calls[c].pc = "fulfilled" /\ calls[c].op = "logout"
  /\ calls' = [calls EXCEPT ![c] = Settle(@, "resolved", Undefined)]
  /\ UNCHANGED <<env, store, localStorage, windowLocation, expired>>

\* user ? JSON.parse(user) : null, with JSON.parse throwing on a malformed text
\* (the catch block returns null).
ParseCached(text) ==
  IF text = NoItem THEN Null
  ELSE IF JSONwellFormed(text) THEN JSONparse(text) ELSE Null

\* Mutant of getCurrentUser: the catch block rethrows as the other service
\* functions do.
getCurrentUser_rethrow(c) ==
  /\ calls[c].pc = "getCurrentUser"
  /\ \E ok \in BOOLEAN :
       calls' = [calls EXCEPT ![c] =
         IF ok /\ (store.user = NoItem \/ JSONwellFormed(store.user))
         THEN Settle(@, "resolved", ParseCached(store.user))
         ELSE Settle([@ EXCEPT !.error = StorageFailure], "rejected",
                     handleError(StorageFailure))]
  /\ UNCHANGED <<env, store, localStorage, windowLocation, expired>>

\* getCurrentUser: the read, the parse and the catch that returns null.
getCurrentUser(c) ==
  /\ calls[c].pc = "getCurrentUser"
  /\ \E ok \in BOOLEAN :
       calls' = [calls EXCEPT ![c] =
         IF ok THEN Settle(@, "resolved", ParseCached(store.user))
         ELSE Settle([@ EXCEPT !.error = StorageFailure], "resolved", Null)]
  /\ UNCHANGED <<env, store, localStorage, windowLocation, expired>>

\* isAuthenticated: const token = await getItem('token'); return !!token.
\* There is no try/catch: a failing read rejects with the storage error.
isAuthenticated(c) ==
  /\ calls[c].pc = "isAuthenticated"
  /\ \E ok \in BOOLEAN :
       calls' = [calls EXCEPT ![c] =
         IF ok THEN Settle(@, "resolved", [bool |-> Truthy(store.token)])
         ELSE Settle([@ EXCEPT !.error = StorageFailure], "rejected", StorageFailure)]
  /\ UNCHANGED <<env, store, localStorage, windowLocation, expired>>

\* refreshToken: const refreshToken = await getItem('refreshToken'), then the
\* POST is issued with it.
refresh_getItem(c) ==
  /\ calls[c].pc = "refresh_getItem"
  /\ \E ok \in BOOLEAN :
       calls' = [calls EXCEPT ![c] =
         IF ok THEN [@ EXCEPT !.pc = "request", !.refresh = store.refreshToken]
         ELSE Raise(@, StorageFailure)]
  /\ UNCHANGED <<env, store, localStorage, windowLocation, expired>>

\* Mutant of refresh_setToken: the refreshed token is kept under the
\* 'refreshToken' key as well, for the next refresh.
refresh_setToken_rotating(c) ==
  /\ calls[c].pc = "fulfilled" /\ calls[c].op = "refreshToken"
  /\ LET data == calls[c].response.data
     IN IF Truthy(data.token)
        THEN /\ store' = [store EXCEPT !.token = data.token, !.refreshToken = data.token]
             /\ calls' = [calls EXCEPT ![c] =
                  Settle(Wrote(Wrote(@, "token", data.token), "refreshToken", data.token),
                         "resolved", data)]
             /\ expired' = FALSE
        ELSE /\ calls' = [calls EXCEPT ![c] = Settle(@, "resolved", data)]
             /\ UNCHANGED <<store, expired>>
  /\ UNCHANGED <<env, localStorage, windowLocation>>

\* refreshToken, after the POST resolved: if (response.data.token) await
\* setItem('token', ...); return response.data.
refresh_setToken(c) ==
  /\ calls[c].pc = "fulfilled" /\ calls[c].op = "refreshToken"
  /\ LET data == calls[c].response.data
     IN IF Truthy(data.token)
        THEN \E ok \in BOOLEAN :
               IF ok
               THEN /\ store' = [store EXCEPT !.token = data.token]
                    /\ calls' = [calls EXCEPT ![c] =
                         Settle(Wrote(@, "token", data.token), "resolved", data)]
                    /\ expired' = FALSE
               ELSE /\ calls' = [calls EXCEPT ![c] = Raise(@, StorageFailure)]
                    /\ UNCHANGED <<store, expired>>
        ELSE /\ calls' = [calls EXCEPT ![c] = Settle(@, "resolved", data)]
             /\ UNCHANGED <<store, expired>>
  /\ UNCHANGED <<env, localStorage, windowLocation>>

\* Mutant of profile_setUser: the user is cached only while a session is
\* stored, so a profile update that lost the race against a logout writes
\* nothing.
profile_setUser_guarded(c) ==
  /\ calls[c].pc = "fulfilled" /\ calls[c].op = "updateUserProfile"
  /\ LET data == calls[c].response.data
         json == JSONstringify(data)
     IN IF Truthy(store.token)
        THEN /\ store' = [store EXCEPT !.user = json.text]
             /\ calls' = [calls EXCEPT ![c] =
                  Settle(Wrote(@, "user", json.text), "resolved", data)]
        ELSE /\ calls' = [calls EXCEPT ![c] = Settle(@, "resolved", data)]
             /\ UNCHANGED store
  /\ UNCHANGED <<env, localStorage, windowLocation, expired>>

\* Mutant of profile_setUser: the response is returned but never cached.
profile_setUser_unsaved(c) ==
  /\ calls[c].pc = "fulfilled" /\ calls[c].op = "updateUserProfile"
  /\ calls' = [calls EXCEPT ![c] = Settle(@, "resolved", @.response.data)]
  /\ UNCHANGED <<env, store, localStorage, windowLocation, expired>>

\* updateUserProfile, after the PUT resolved: await setItem('user',
\* JSON.stringify(response.data)); return response.data.
profile_setUser(c) ==
  /\ calls[c].pc = "fulfilled" /\ calls[c].op = "updateUserProfile"
  /\ LET data == calls[c].response.data
         json == JSONstringify(data)
     IN \E ok \in BOOLEAN :
          IF ok /\ Storable(json)
          THEN /\ store' = [store EXCEPT !.user = json.text]
               /\ calls' = [calls EXCEPT ![c] =
                    Settle(Wrote(@, "user", json.text), "resolved", data)]
          ELSE /\ calls' = [calls EXCEPT ![c] = Raise(@, StorageFailure)]
               /\ UNCHANGED store
  /\ UNCHANGED <<env, localStorage, windowLocation, expired>>

\* ------------------------------------------------------------------ system
Next ==
  \E c \in Slots :
    \/ \E op \in AuthOps("js") \cup {"product"} : Call(c, op)
    \/ requestInterceptor(c)
    \/ dispatch(c)
    \/ respond(c)
    \/ unauthorized(c)
    \/ serviceCatch(c)
    \/ login_setToken(c)
    \/ login_setUser(c)
    \/ returnData(c)
    \/ logout_removeToken(c)
    \/ logout_removeUser(c)
    \/ logout_done(c)
    \/ getCurrentUser(c)
    \/ isAuthenticated(c)
    \/ refresh_getItem(c)
    \/ refresh_setToken(c)
    \/ profile_setUser(c)

\* The caller awaits each call before it makes the next one.
Spec == Init /\ [][Next]_vars

\* Two service calls in flight at once (section 5: a profile update racing a
\* logout, product requests racing a login): the calls a screen makes without
\* awaiting the one before.
RaceOps == {"login", "logout", "updateUserProfile", "product"}

\* The answers of the race: a login is answered {token, user} as section 6
\* has it, a profile update with the profile without its phone, an error with
\* a body without message.
RaceBodies(op) ==
  CASE op = "login" -> [token : Tokens, user : {UserOf(1, TRUE)}]
    [] op = "updateUserProfile" -> {UserOf(1, FALSE)}
    [] OTHER -> SuccessBodies(op)

respondRace(c) == Answered(c, RaceBodies(calls[c].op), {[message |-> NoMessage]})

InitRace ==
  /\ variant \in {"js", "ts"}
  /\ inflightCap = 2
  /\ store = [token |-> NoToken, user |-> NoItem, refreshToken |-> NoToken]
  /\ localStorage = [token |-> NoToken]
  /\ windowLocation = "/"
  /\ calls = [c \in Slots |-> IdleCall]
  /\ expired = FALSE
  /\ ctx = CtxInit
  /\ screen = ScreenInit

NextRace ==
  \E c \in Slots :
    \/ \E op \in RaceOps : Call(c, op)
    \/ requestInterceptor(c)
    \/ dispatch(c)
    \/ respondRace(c)
    \/ unauthorized(c)
    \/ serviceCatch(c)
    \/ login_setToken(c)
    \/ login_setUser(c)
    \/ returnData(c)
    \/ logout_removeToken(c)
    \/ logout_removeUser(c)
    \/ logout_done(c)
    \/ profile_setUser(c)

SpecRace == InitRace /\ [][NextRace]_vars

\* Durable storage outlives the process: at start the device may hold what an
\* earlier run, an older version of the application or another writer left
\* under the two keys, a text that is no JSON included.
PersistedUserTexts == {NoItem, CorruptText} \cup {JSONstringify(u).text : u \in Users}

InitRestart ==
  /\ variant \in {"js", "ts"}
  /\ inflightCap = 1
  /\ store \in [token : Tokens \cup {NoToken}, user : PersistedUserTexts,
                refreshToken : {NoToken}]
  /\ localStorage = [token |-> NoToken]
  /\ windowLocation = "/"
  /\ calls = [c \in Slots |-> IdleCall]
  /\ expired = FALSE
  /\ ctx = CtxInit
  /\ screen = ScreenInit

SpecRestart == InitRestart /\ [][Next]_vars

\* How a call ended and what it was answered.
Done(c) == calls[c].pc = "done"
Resolved(c) == Done(c) /\ calls[c].outcome = "resolved"
Rejected(c) == Done(c) /\ calls[c].outcome = "rejected"
Got401(c) == calls[c].response # NoResponse /\ calls[c].response.status = 401
GotSuccess(c) == calls[c].response # NoResponse /\ calls[c].response.status = 200

\* ------------------------------------------------------------------ context
\* AuthProvider (contexts/AuthContext): the state it keeps and the async
\* handlers it hands to its children. A handler awaits one service call; its
\* continuation runs once the call has settled.
HandlerPending(c) == ctx.handler[c].outcome = "pending"

\* A handler of the provider invokes a service function and suspends on it.
ctxCall(c, name, op) ==
  /\ ~HandlerPending(c)
  /\ calls[c].pc \in {"idle", "done"}
  /\ \A d \in Slots : d < c => d \in InFlight
  /\ Cardinality(InFlight) < inflightCap
  /\ calls' = [calls EXCEPT ![c] = [IdleCall EXCEPT !.op = op, !.pc = Entry(op)]]
  /\ ctx' = [ctx EXCEPT !.handler[c] = [name |-> name, outcome |-> "pending"]]
  /\ UNCHANGED <<variant, inflightCap, store, localStorage, windowLocation, expired, screen>>

\* The continuation of a handler has run: the provider's user is now user and
\* the handler's promise settled as outcome.
ctxSettle(c, user, outcome) ==
  /\ ctx' = [ctx EXCEPT !.user = user, !.handler[c].outcome = outcome]
  /\ UNCHANGED <<variant, inflightCap, store, localStorage, windowLocation, calls, expired,
                 screen>>

\* Mutant of Rendered: the provider renders its children whatever loading is.
Rendered_always == TRUE

\* {!loading && children}: the children, and with them every caller of
\* useAuth(), exist only while loading is false.
Rendered == ~ctx.loading

\* useEffect(() => { checkUser(); }, []): once, after the provider mounted.
checkUser(c) ==
  /\ ctx.loading /\ \A d \in Slots : ctx.handler[d] = NoHandler
  /\ ctxCall(c, "checkUser", "getCurrentUser")

\* checkUser after the await: setUser(user) when the lookup resolved, the
\* catch block when it rejected, and setLoading(false) in the finally block.
checkUser_finally(c) ==
  /\ HandlerPending(c) /\ ctx.handler[c].name = "checkUser" /\ Done(c)
  /\ ctx' = [ctx EXCEPT !.user = IF Resolved(c) THEN calls[c].value ELSE @,
                        !.loading = FALSE,
                        !.handler[c].outcome = "resolved"]
  /\ UNCHANGED <<variant, inflightCap, store, localStorage, windowLocation, calls, expired,
                 screen>>

\* login of the context: await AuthService.login(...)
ctx_login(c) == Rendered /\ ctxCall(c, "login", "login")

\* ... then setUser(response.user); a rejection is rethrown as it is.
ctx_login_then(c) ==
  /\ HandlerPending(c) /\ ctx.handler[c].name = "login" /\ Done(c)
  /\ IF Resolved(c) THEN ctxSettle(c, calls[c].value.user, "resolved")
                    ELSE ctxSettle(c, ctx.user, "rejected")

\* register of the context: the service call and nothing else.
ctx_register(c) == Rendered /\ ctxCall(c, "register", "register")

ctx_register_then(c) ==
  /\ HandlerPending(c) /\ ctx.handler[c].name = "register" /\ Done(c)
  /\ ctxSettle(c, ctx.user, calls[c].outcome)

\* logout of the context: await AuthService.logout()
ctx_logout(c) == Rendered /\ ctxCall(c, "logout", "logout")

\* ... then setUser(null); the catch block logs and rethrows, and the user
\* state stays as it was.
ctx_logout_then(c) ==
  /\ HandlerPending(c) /\ ctx.handler[c].name = "logout" /\ Done(c)
  /\ IF Resolved(c) THEN ctxSettle(c, Null, "resolved")
                    ELSE ctxSettle(c, ctx.user, "rejected")

\* The application under the provider: every service call is one a handler of
\* the provider makes, one at a time.
InitContext ==
  /\ variant \in {"js", "ts"}
  /\ inflightCap = 1
  /\ store \in [token : Tokens \cup {NoToken}, user : PersistedUserTexts,
                refreshToken : {NoToken}]
  /\ localStorage = [token |-> NoToken]
  /\ windowLocation = "/"
  /\ calls = [c \in Slots |-> IdleCall]
  /\ expired = FALSE
  /\ ctx = CtxInit
  /\ screen = ScreenInit

NextContext ==
  \E c \in Slots :
    \/ checkUser(c)
    \/ checkUser_finally(c)
    \/ ctx_login(c)
    \/ ctx_login_then(c)
    \/ ctx_register(c)
    \/ ctx_register_then(c)
    \/ ctx_logout(c)
    \/ ctx_logout_then(c)
    \/ requestInterceptor(c)
    \/ dispatch(c)
    \/ respond(c)
    \/ unauthorized(c)
    \/ serviceCatch(c)
    \/ login_setToken(c)
    \/ login_setUser(c)
    \/ returnData(c)
    \/ logout_removeToken(c)
    \/ logout_removeUser(c)
    \/ logout_done(c)
    \/ getCurrentUser(c)

\* The effect runs after the mount, a storage read settles, and a settled
\* promise's continuation is run by the event loop.
SpecContext ==
  /\ InitContext /\ [][NextContext]_vars
  /\ \A c \in Slots :
       /\ WF_vars(checkUser(c))
       /\ WF_vars(getCurrentUser(c))
       /\ WF_vars(checkUser_finally(c))

\* ------------------------------------------------------------------ products screen
\* ProductsScreen: the list in its state and its async handlers. A handler's
\* closure holds the products of the render it was created in.
TaskPending(c) == screen.task[c].pending

\* A handler of the screen invokes a product service function and suspends.
screenCall(c, kind, id) ==
  /\ ~TaskPending(c)
  /\ calls[c].pc \in {"idle", "done"}
  /\ \A d \in Slots : d < c => d \in InFlight
  /\ Cardinality(InFlight) < inflightCap
  /\ calls' = [calls EXCEPT ![c] = [IdleCall EXCEPT !.op = "product", !.pc = Entry("product")]]
  /\ screen' = [screen EXCEPT !.task[c] =
       [kind |-> kind, id |-> id, snapshot |-> screen.products, pending |-> TRUE]]
  /\ UNCHANGED <<variant, inflightCap, store, localStorage, windowLocation, expired, ctx>>

\* loadProducts / handleSearch / handleRefresh: await the service call ...
loadProducts(c) == screenCall(c, "load", 0)

\* ... then setProducts(data) with the list the server returned (any list:
\* products are created and deleted elsewhere too); on a failure an alert.
loadProducts_then(c) ==
  /\ TaskPending(c) /\ screen.task[c].kind = "load" /\ Done(c)
  /\ \E data \in SUBSET ProductIds :
       screen' = [screen EXCEPT
         !.products = IF Resolved(c) THEN data ELSE @,
         !.gone = IF Resolved(c) THEN @ \ data ELSE @,
         !.task[c].pending = FALSE]
  /\ UNCHANGED <<variant, inflightCap, store, localStorage, windowLocation, calls, expired, ctx>>

\* handleDelete(id), confirmed in the alert: await deleteProduct(id). The
\* button belongs to a product of the list on display.
handleDelete(c, id) ==
  /\ id \in screen.products
  /\ screenCall(c, "delete", id)

\* Mutant of handleDelete_then: the list is filtered from the current state
\* (a functional update), not from the closure's products.
handleDelete_then_functional(c) ==
  /\ TaskPending(c) /\ screen.task[c].kind = "delete" /\ Done(c)
  /\ screen' = [screen EXCEPT
       !.products = IF Resolved(c) THEN @ \ {screen.task[c].id} ELSE @,
       !.gone = IF Resolved(c) THEN @ \cup {screen.task[c].id} ELSE @,
       !.task[c].pending = FALSE]
  /\ UNCHANGED <<variant, inflightCap, store, localStorage, windowLocation, calls, expired, ctx>>

\* ... then setProducts(products.filter(product => product.id !== id)), with
\* the products of the closure; on a failure an alert and no change.
handleDelete_then(c) ==
  /\ TaskPending(c) /\ screen.task[c].kind = "delete" /\ Done(c)
  /\ screen' = [screen EXCEPT
       !.products = IF Resolved(c) THEN screen.task[c].snapshot \ {screen.task[c].id} ELSE @,
       !.gone = IF Resolved(c) THEN @ \cup {screen.task[c].id} ELSE @,
       !.task[c].pending = FALSE]
  /\ UNCHANGED <<variant, inflightCap, store, localStorage, windowLocation, calls, expired, ctx>>

\* The screen on display in a logged-in session: its handlers are started by
\* taps, without awaiting the ones already running.
InitProducts ==
  /\ variant \in {"js", "ts"}
  /\ inflightCap = 2
  /\ store = [token |-> 1, user |-> JSONstringify(UserOf(1, FALSE)).text,
              refreshToken |-> NoToken]
  /\ localStorage = [token |-> NoToken]
  /\ windowLocation = "/"
  /\ calls = [c \in Slots |-> IdleCall]
  /\ expired = FALSE
  /\ ctx = CtxInit
  /\ screen = ScreenInit

NextProducts ==
  \E c \in Slots :
    \/ loadProducts(c)
    \/ loadProducts_then(c)
    \/ \E id \in ProductIds : handleDelete(c, id)
    \/ handleDelete_then(c)
    \/ requestInterceptor(c)
    \/ dispatch(c)
    \/ respondRace(c)
    \/ unauthorized(c)
    \/ serviceCatch(c)
    \/ returnData(c)

SpecProducts == InitProducts /\ [][NextProducts]_vars

\* ------------------------------------------------------------------ claims
\* C1: once a login whose response body carries a token has resolved, a token
\* is stored (isAuthenticated() is true), it is the token of the response, and
\* getCurrentUser() returns the user of the response.
C1_LoginAuthenticates ==
  \A c \in Slots :
    (calls[c].op = "login" /\ Resolved(c) /\ Truthy(calls[c].response.data.token))
    => /\ Truthy(store.token)
       /\ store.token = calls[c].response.data.token
       /\ ParseCached(store.user) = calls[c].response.data.user

\* A login that changed the stored token and the stored user has resolved,
\* its user one with a phone.
C1_Witness ==
  \E c \in Slots :
    /\ calls[c].op = "login" /\ Resolved(c)
    /\ Truthy(calls[c].response.data.token)
    /\ calls[c].mods = {"token", "user"}
    /\ "phone" \in DOMAIN calls[c].response.data.user

\* C2: after a logout whose POST /auth/logout was issued, whatever came of it
\* (2xx, error status, no response), no token is stored: isAuthenticated() is
\* false.
C2_LogoutUnauthenticates ==
  \A c \in Slots :
    (calls[c].op = "logout" /\ Done(c) /\ calls[c].sent > 0) => ~Truthy(store.token)

\* A logout of a logged-in session whose POST was answered 401 has completed.
C2_Witness ==
  \E c \in Slots :
    /\ calls[c].op = "logout" /\ Rejected(c) /\ Got401(c)
    /\ "token" \in calls[c].mods

\* C3: when a 401 failure is delivered, the stored token has been removed, and
\* a request issued after it (no login or refresh having succeeded since)
\* carries no Authorization header.
C3_TokenClearedBefore401Delivered ==
  \A c \in Slots :
    /\ (Rejected(c) /\ Got401(c)) => ~Truthy(store.token)
    /\ (calls[c].sent > 0 /\ calls[c].stale) => calls[c].auth = NoToken

\* C4: a call that received a 401 response rejects, and with the original
\* failure: what it rejects with is what handleError makes of the error that
\* carries the 401 response, of status 401 (a response without a body, which
\* handleError does not normalize, is C5's subject).
C4_Unauthorized401Propagated ==
  \A c \in Slots :
    (Done(c) /\ Got401(c))
    => /\ calls[c].outcome = "rejected"
       /\ calls[c].value = handleError(AxiosError(calls[c].response, TRUE))
       /\ IsNormalized(calls[c].value) => calls[c].value.status = 401

\* C5: what a catch block throws is handleError's three-way classification of
\* the error it caught: the response's status and message (or the fallback
\* message), else 503 when the request was sent, else 500.
C5_HandleErrorTotal ==
  \A c \in Slots :
    (Rejected(c) /\ calls[c].op # "isAuthenticated")
    => LET e == calls[c].error
           v == calls[c].value
       IN /\ IsNormalized(v)
          /\ IF e.response # NoResponse
             THEN /\ v.status = e.response.status
                  /\ v.message \in {FallbackMessage} \cup
                       {b.message : b \in {d \in ErrorBodies \ {Null} : d.message # NoMessage}}
                  /\ (v.message = FallbackMessage) <=>
                       (e.response.data \in {Null, [message |-> NoMessage]})
             ELSE IF e.request THEN v.status = 503 ELSE v.status = 500

\* C6: logout removes token and user before the POST is issued, and when the
\* POST then fails the store holds neither and the caller gets an error.
C6_LogoutClearsBeforePost ==
  \A c \in Slots :
    calls[c].op = "logout" =>
      /\ (calls[c].pc \in {"request", "dispatch", "wire"} \/ calls[c].sent > 0)
           => /\ store.token = NoToken /\ store.user = NoItem
              /\ calls[c].writes = {"token", "user"}
      /\ (Done(c) /\ calls[c].sent > 0 /\ ~GotSuccess(c))
           => calls[c].outcome = "rejected"

\* A logout that removed a stored token and user got no answer to its POST.
C6_Witness ==
  \E c \in Slots :
    /\ calls[c].op = "logout" /\ Rejected(c) /\ calls[c].sent > 0
    /\ calls[c].response = NoResponse
    /\ calls[c].mods = {"token", "user"}

\* C7: a login that fails has changed neither the stored token nor the stored
\* user, and rejects with what handleError makes of the error.
C7_FailedLoginLeavesSession ==
  \A c \in Slots :
    (calls[c].op = "login" /\ Rejected(c))
    => calls[c].mods = {} /\ calls[c].value = handleError(calls[c].error)

\* C8: a login that got a 2xx writes the token and the user exactly when the
\* body carries a token; a login that resolves returns the body; without a
\* token in the body it always resolves and leaves the store alone.
C8_LoginWritesIffToken ==
  \A c \in Slots :
    calls[c].op = "login" =>
      /\ Resolved(c) =>
           /\ calls[c].value = calls[c].response.data
           /\ Truthy(calls[c].response.data.token) <=> calls[c].writes = {"token", "user"}
           /\ ~Truthy(calls[c].response.data.token) => calls[c].writes = {}
      /\ (Done(c) /\ GotSuccess(c) /\ ~Truthy(calls[c].response.data.token))
           => calls[c].outcome = "resolved"
      /\ (GotSuccess(c) /\ calls[c].writes # {}) => Truthy(calls[c].response.data.token)

\* A login answered without a token resolved while a session was stored.
C8_Witness ==
  \E c \in Slots :
    /\ calls[c].op = "login" /\ Resolved(c)
    /\ ~Truthy(calls[c].response.data.token)
    /\ Truthy(store.token) /\ store.user # NoItem

\* C9: a register that resolves has written nothing to the store, also when
\* the response carries a token and a user, and returns the body.
C9_RegisterLeavesSession ==
  \A c \in Slots :
    (calls[c].op = "register" /\ Resolved(c))
    => /\ calls[c].writes = {} /\ calls[c].mods = {}
       /\ calls[c].value = calls[c].response.data

\* A register answered {token, user} resolved with no session stored.
C9_Witness ==
  \E c \in Slots :
    /\ calls[c].op = "register" /\ Resolved(c)
    /\ Truthy(calls[c].response.data.token)
    /\ calls[c].response.data.user \in Users
    /\ ~Truthy(store.token) /\ store.user = NoItem

\* C10: getCurrentUser always resolves: with the user whose serialization is
\* stored, and with null when nothing is stored, when the read fails or when
\* the stored text is no JSON; it writes nothing.
C10_GetCurrentUserNeverFails ==
  \A c \in Slots :
    (calls[c].op = "getCurrentUser" /\ Done(c))
    => /\ calls[c].outcome = "resolved"
       /\ calls[c].writes = {} /\ calls[c].mods = {}
       /\ IF calls[c].error = NoError
             /\ \E u \in Users : JSONstringify(u).text = store.user
          THEN JSONstringify(calls[c].value).text = store.user
          ELSE calls[c].value = Null

\* getCurrentUser read a stored text that is no JSON and resolved with null.
C10_Witness ==
  \E c \in Slots :
    /\ calls[c].op = "getCurrentUser" /\ Resolved(c)
    /\ calls[c].error = NoError
    /\ store.user = CorruptText
    /\ calls[c].value = Null

\* C11: an updateUserProfile that resolves has replaced the stored user by the
\* response body and written no token; one that fails has not written the user.
C11_ProfileReplacesUser ==
  \A c \in Slots :
    calls[c].op = "updateUserProfile" =>
      /\ Resolved(c) =>
           /\ store.user = JSONstringify(calls[c].response.data).text
           /\ ParseCached(store.user) = calls[c].response.data
           /\ calls[c].value = calls[c].response.data
           /\ calls[c].writes = {"user"}
      /\ Rejected(c) => calls[c].writes = {} /\ calls[c].mods = {}

\* A logged-in session's profile update changed the stored user.
C11_Witness ==
  \E c \in Slots :
    /\ calls[c].op = "updateUserProfile" /\ Resolved(c)
    /\ calls[c].mods = {"user"}
    /\ Truthy(store.token)

\* C12: the request interceptor gives a request the token the AsyncStorage
\* 'token' key (the one login writes) holds when it runs, and no Authorization
\* header when that key holds none.
C12_RequestCarriesStoredToken ==
  [][\A c \in Slots :
       (calls[c].pc = "request" /\ calls'[c].pc \in {"dispatch", "wire"})
       => calls'[c].auth = store.token]_vars

\* C13: the response interceptor's 401 branch leaves the stored user (and the
\* refresh token key) as it was; in the TypeScript variant a removal that goes
\* through leaves no token stored.
C13_Only401TokenRemoved ==
  [][\A c \in Slots :
       (calls[c].pc = "unauthorized" /\ calls'[c].pc # "unauthorized")
       => /\ store'.user = store.user
          /\ store'.refreshToken = store.refreshToken
          /\ (variant = "ts" /\ calls'[c].error = calls[c].error)
               => store'.token = NoToken]_vars

\* A product call of a logged-in session was answered 401: the token is gone,
\* the cached user is still there.
C13_Witness ==
  \E c \in Slots :
    /\ calls[c].op = "product" /\ Rejected(c) /\ Got401(c)
    /\ calls[c].mods = {"token"}
    /\ ~Truthy(store.token)
    /\ ParseCached(store.user) \in Users

\* C14: in the JavaScript variant, when a 401 failure has been delivered no
\* token is stored (isAuthenticated() is false).
C14_JsUnauthenticatedAfter401 ==
  \A c \in Slots :
    (variant = "js" /\ Rejected(c) /\ Got401(c)) => ~Truthy(store.token)

\* C15: a call of a service function that writes nothing itself, answered 2xx
\* or failing without a 401, has written no storage key; it resolves with the
\* body of the response, or rejects with what handleError makes of the failure
\* as the network delivered it.
C15_InterceptorPassesThrough ==
  \A c \in Slots :
    (calls[c].op \in {"register", "resetPassword", "product"}
       /\ Done(c) /\ calls[c].sent > 0 /\ ~Got401(c))
    => /\ calls[c].writes = {} /\ calls[c].mods = {}
       /\ IF GotSuccess(c)
          THEN calls[c].outcome = "resolved" /\ calls[c].value = calls[c].response.data
          ELSE /\ calls[c].outcome = "rejected"
               /\ calls[c].error = AxiosError(calls[c].response, TRUE)
               /\ calls[c].value = handleError(AxiosError(calls[c].response, TRUE))

\* A product call of a logged-in session failed with status 404.
C15_Witness ==
  \E c \in Slots :
    /\ calls[c].op = "product" /\ Rejected(c)
    /\ calls[c].response # NoResponse /\ calls[c].response.status = 404
    /\ Truthy(store.token) /\ store.user # NoItem

\* C16: a step that stores a user (changes the 'user' key to a text) is taken
\* while a token is stored.
C16_UserWrittenOnlyWithToken ==
  [][(store'.user # store.user /\ store'.user # NoItem) => Truthy(store.token)]_vars

\* C17: with no login, register or refreshToken in flight, a stored token
\* comes with a stored user.
C17_TokenImpliesUser ==
  (\A c \in Slots : calls[c].op \in {"login", "register", "refreshToken"} => c \notin InFlight)
  => (Truthy(store.token) => store.user # NoItem)

\* C18: a request that is dispatched does not carry a token for which another
\* call's 401 has been handled and which is stored no longer.
C18_NoStaleTokenSent ==
  [][\A c \in Slots :
       (calls'[c].sent > calls[c].sent /\ calls'[c].auth # NoToken)
       => ~ \E d \in Slots \ {c} :
              /\ Got401(d) /\ calls[d].pc \in {"catch", "done"}
              /\ calls[d].auth = calls'[c].auth
              /\ "token" \in calls[d].writes
              /\ store.token # calls'[c].auth]_vars

\* C19: with a profile update and a logout racing, the stored user follows the
\* writes in their order: the profile's write leaves the response body stored,
\* logout's removal leaves none, nothing else changes the key; and once both
\* are over the stored user is one of the two.
C19_LastWriteWins ==
  /\ [](\A c, d \in Slots :
          (/\ calls[c].op = "logout" /\ Done(c) /\ "user" \in calls[c].writes
           /\ calls[d].op = "updateUserProfile" /\ Resolved(d))
          => store.user \in {NoItem, JSONstringify(calls[d].response.data).text})
  /\ [][/\ \A c \in Slots :
             (/\ calls[c].op = "updateUserProfile" /\ calls[c].pc = "fulfilled"
              /\ calls'[c].outcome = "resolved")
             => store'.user = JSONstringify(calls[c].response.data).text
        /\ \A c \in Slots :
             (/\ calls[c].op = "logout" /\ calls[c].pc = "logout_removeUser"
              /\ calls'[c].pc = "request")
             => store'.user = NoItem
        /\ store'.user # store.user
             => \E c \in Slots : "user" \in calls'[c].writes \ calls[c].writes]_vars

\* A logout that has removed token and user still waits for its POST while
\* the profile update that raced it has cached its response: the session has
\* no token and a user.
C19_Witness ==
  \E c, d \in Slots :
    /\ calls[c].op = "logout" /\ calls[c].pc = "wire"
    /\ calls[c].writes = {"token", "user"}
    /\ calls[d].op = "updateUserProfile" /\ Resolved(d)
    /\ store.user = JSONstringify(calls[d].response.data).text
    /\ ~Truthy(store.token)

\* C20: a call dispatches at most one HTTP request, and once it has failed
\* nothing is in flight until the caller makes the next call.
C20_NoAutomaticRetry ==
  \A c \in Slots :
    /\ calls[c].sent <= 1
    /\ Rejected(c) => InFlight = {}

\* A call whose single request got no answer has been rejected with 503.
C20_Witness ==
  \E c \in Slots :
    /\ Rejected(c) /\ calls[c].sent = 1
    /\ calls[c].error = AxiosError(NoResponse, TRUE)
    /\ IsNormalized(calls[c].value) /\ calls[c].value.status = 503

\* C21: the user text that login or updateUserProfile stores reads back as the
\* record that was written, phone present or absent; and a getCurrentUser whose
\* read goes through returns what the stored text parses to (null for no item).
C21_UserRoundTrip ==
  [][\A c \in Slots :
       /\ (calls[c].pc = "login_setUser" /\ "user" \in calls'[c].writes)
          => /\ store'.user # NoItem
             /\ JSONparse(store'.user) = calls[c].response.data.user
       /\ (/\ calls[c].op = "updateUserProfile" /\ calls[c].pc = "fulfilled"
           /\ "user" \in calls'[c].writes)
          => /\ store'.user # NoItem
             /\ JSONparse(store'.user) = calls[c].response.data
       /\ (calls[c].pc = "getCurrentUser" /\ calls'[c].error = NoError)
          => /\ calls'[c].outcome = "resolved"
             /\ calls'[c].value =
                  IF store.user = NoItem THEN Null ELSE JSONparse(store.user)
             /\ store' = store]_vars

\* getCurrentUser has returned a stored record that has a phone.
C21_Witness ==
  \E c \in Slots :
    /\ calls[c].op = "getCurrentUser" /\ Resolved(c) /\ calls[c].error = NoError
    /\ calls[c].value \in Users /\ "phone" \in DOMAIN calls[c].value
    /\ store.user = JSONstringify(calls[c].value).text

\* C22: what login, logout, updateUserProfile or refreshToken rejects with
\* after a storage operation of its own failed differs from what a request
\* that could not be set up is normalized to (status 500).
C22_StorageErrorDistinct ==
  \A c \in Slots :
    (/\ Rejected(c) /\ calls[c].error = StorageFailure
     /\ \/ calls[c].op = "logout" /\ calls[c].sent = 0
        \/ calls[c].op \in {"login", "updateUserProfile", "refreshToken"} /\ GotSuccess(c))
    => calls[c].value # handleError(AxiosError(NoResponse, FALSE))

\* C23: an auth service call other than getCurrentUser that ran into an error
\* rejects, and with a normalized {status, message} value.
C23_FailuresNormalized ==
  \A c \in Slots :
    (Done(c) /\ calls[c].op \in AuthOps("js") \ {"getCurrentUser"}
       /\ calls[c].error # NoError)
    => /\ calls[c].outcome = "rejected"
       /\ IsNormalized(calls[c].value)

\* C24: in the TypeScript variant, with the caller awaiting each call, the
\* POST /auth/logout that logout issues carries no Authorization header: the
\* token is removed before the request interceptor reads it.
C24_TsLogoutRequestUnauthenticated ==
  \A c \in Slots :
    (variant = "ts" /\ calls[c].op = "logout"
       /\ calls[c].pc \notin {"logout_removeToken", "logout_removeUser", "request"})
    => /\ calls[c].auth = NoToken
       /\ calls[c].sent > 0 => (~Truthy(store.token) /\ "token" \in calls[c].writes)

\* The logout of a logged-in TypeScript session has sent its POST, without a
\* header, after it removed the token that was stored.
C24_Witness ==
  \E c \in Slots :
    /\ variant = "ts" /\ calls[c].op = "logout"
    /\ calls[c].sent = 1 /\ calls[c].auth = NoToken
    /\ "token" \in calls[c].mods

\* C25: once the context's logout has completed, resolved or rejected, with
\* token and user removed from the store, the context's user is null.
C25_ContextAgreesAfterLogout ==
  \A c \in Slots :
    (/\ ctx.handler[c].name = "logout"
     /\ ctx.handler[c].outcome \in {"resolved", "rejected"}
     /\ calls[c].op = "logout" /\ Done(c)
     /\ store.token = NoToken /\ store.user = NoItem)
    => ctx.user = Null

\* C26: loading is true when the provider mounts, becomes false once the
\* initial lookup is over, is never true again, and a handler of the context
\* is invoked only while loading is false.
C26_LoadingLifecycle ==
  /\ ctx.loading
  /\ [][~ctx.loading => ~ctx'.loading]_vars
  /\ [][\A c \in Slots :
          (/\ ctx'.handler[c] # ctx.handler[c]
           /\ ctx'.handler[c].outcome = "pending"
           /\ ctx'.handler[c].name \in {"login", "register", "logout"})
          => ~ctx.loading]_vars
  /\ [][\A c \in Slots :
          (ctx.loading /\ ~ctx'.loading)
          => \E d \in Slots : ctx.handler[d].name = "checkUser" /\ Done(d)]_vars
  /\ <>[](~ctx.loading)

\* The lookup found no usable user (null) and loading is false; the context's
\* login has been invoked since.
C26_Witness ==
  \E c \in Slots :
    /\ ~ctx.loading /\ ctx.user = Null
    /\ ctx.handler[c].name = "login" /\ HandlerPending(c)

\* C27: a logout whose removal of the token failed has removed no user and
\* sent no request; it rejects with status 500, and none of its steps changed
\* the store.
C27_LogoutTokenRemovalFails ==
  /\ [](\A c \in Slots :
          (calls[c].op = "logout" /\ "token" \notin calls[c].writes
             /\ calls[c].pc # "logout_removeToken")
          => /\ calls[c].pc \in {"catch", "done"}
             /\ calls[c].error = StorageFailure
             /\ calls[c].writes = {} /\ calls[c].sent = 0
             /\ Done(c) => /\ calls[c].outcome = "rejected"
                           /\ calls[c].value = [status |-> 500, message |-> ConfigMessage])
  /\ [][\A c \in Slots :
          (calls'[c].op = "logout" /\ calls[c].op = "logout"
             /\ "token" \notin calls'[c].writes /\ calls'[c] # calls[c])
          => store' = store]_vars

\* The logout of a logged-in session has failed on its first removal: token
\* and user are still stored.
C27_Witness ==
  \E c \in Slots :
    /\ calls[c].op = "logout" /\ Rejected(c) /\ calls[c].writes = {}
    /\ calls[c].value = [status |-> 500, message |-> ConfigMessage]
    /\ Truthy(store.token) /\ store.user # NoItem

\* C28: the list on display holds no product whose deletion succeeded, unless
\* a load has returned it since.
C28_DeletedStaysRemoved == screen.products \cap screen.gone = {}

\* C29: the 'refreshToken' key is never stored, every refresh request carries
\* a null refresh token, and a refresh whose response carries a token has
\* written the token key only: the stored user is as it was.
C29_RefreshTokenNeverStored ==
  /\ [](/\ store.refreshToken = NoToken
        /\ \A c \in Slots :
             /\ calls[c].refresh = NoToken
             /\ "refreshToken" \notin calls[c].writes
             /\ (calls[c].op = "refreshToken" /\ Resolved(c))
                => /\ calls[c].sent = 1
                   /\ calls[c].writes =
                        IF Truthy(calls[c].response.data.token) THEN {"token"} ELSE {}
                   /\ Truthy(calls[c].response.data.token)
                        => store.token = calls[c].response.data.token)
  /\ [][\A c \in Slots :
          (calls[c].op = "refreshToken" /\ calls'[c] # calls[c] /\ calls'[c].op = "refreshToken")
          => store'.user = store.user /\ store'.refreshToken = store.refreshToken]_vars

\* A logged-in session's refresh has replaced the stored token by another one;
\* the user is still stored.
C29_Witness ==
  \E c \in Slots :
    /\ calls[c].op = "refreshToken" /\ Resolved(c)
    /\ calls[c].mods = {"token"} /\ calls[c].refresh = NoToken
    /\ store.token = calls[c].response.data.token
    /\ store.user # NoItem

====
